---- MODULE Spec2Model ----
(***************************************************************************)
(* Torque-speed curve generator of the PMSM analyzer                       *)
(* (src/utils/motorPhysics.ts, calculateMotorCharacteristics), called by   *)
(* the App component each time the parameter record changes.               *)
(*                                                                         *)
(* The program computes in IEEE doubles.  The model computes the same      *)
(* expressions, in the same order, in fixed point, every product rescaled  *)
(* with truncation toward zero.  Units of the integers:                    *)
(*   current          mA              angle        1/8 degree              *)
(*   rs               0.1 mOhm        ld, lq       0.1 uH                  *)
(*   psif, flux       0.1 uWb         vdc, volts   mV                      *)
(*   voltageUtilization  1/1000       omega        0.1 rad/s (electrical)  *)
(*   mechanical speed mrad/s          torque       uNm                     *)
(*   power            0.01 W (1e-5 kW)                                     *)
(*   sin, cos, voltageIndex          1/10000                               *)
(***************************************************************************)
EXTENDS Integers, Sequences, FiniteSets, TLC

\* ---------------------------------------------------------------- numbers

\* Division of the fixed-point arithmetic: truncates toward zero.
TDiv(a, b) == IF a >= 0 THEN a \div b ELSE -((-a) \div b)

Max(a, b) == IF a >= b THEN a ELSE b

Min(a, b) == IF a <= b THEN a ELSE b

\* Math.ceil(a / b) for a >= 0, b > 0.
CeilDiv(a, b) == (a + b - 1) \div b

RECURSIVE SqrtSearch(_, _, _)
SqrtSearch(n, lo, hi) ==
    IF hi - lo <= 1 THEN lo
    ELSE LET mid == (lo + hi) \div 2
         IN  IF mid * mid <= n THEN SqrtSearch(n, mid, hi)
                               ELSE SqrtSearch(n, lo, mid)

\* Math.sqrt: the largest r with r*r <= n (n < 46341^2).
Sqrt(n) == SqrtSearch(n, 0, 46341)

\* Math.PI, scaled by 10000.
PI4 == 31416

\* Math.sqrt(3), scaled by 10000.
SQRT3 == 17321

\* Angle units per degree, and the right angle Math.PI / 2.
AngPerDeg == 8

HalfPi == 90 * AngPerDeg

\* floor(10000 * sin(k/8 degrees)), k = 0 .. 720, at index k + 1.
SinTable == <<
    0, 21, 43, 65, 87, 109, 130, 152, 174, 196, 218, 239,
    261, 283, 305, 327, 348, 370, 392, 414, 436, 457, 479, 501,
    523, 545, 566, 588, 610, 632, 654, 675, 697, 719, 741, 762,
    784, 806, 828, 849, 871, 893, 915, 936, 958, 980, 1001, 1023,
    1045, 1066, 1088, 1110, 1132, 1153, 1175, 1197, 1218, 1240, 1261, 1283,
    1305, 1326, 1348, 1370, 1391, 1413, 1434, 1456, 1478, 1499, 1521, 1542,
    1564, 1585, 1607, 1628, 1650, 1671, 1693, 1714, 1736, 1757, 1779, 1800,
    1822, 1843, 1865, 1886, 1908, 1929, 1950, 1972, 1993, 2015, 2036, 2057,
    2079, 2100, 2121, 2143, 2164, 2185, 2206, 2228, 2249, 2270, 2292, 2313,
    2334, 2355, 2376, 2398, 2419, 2440, 2461, 2482, 2503, 2524, 2546, 2567,
    2588, 2609, 2630, 2651, 2672, 2693, 2714, 2735, 2756, 2777, 2798, 2819,
    2840, 2861, 2881, 2902, 2923, 2944, 2965, 2986, 3007, 3027, 3048, 3069,
    3090, 3110, 3131, 3152, 3173, 3193, 3214, 3235, 3255, 3276, 3296, 3317,
    3338, 3358, 3379, 3399, 3420, 3440, 3461, 3481, 3502, 3522, 3542, 3563,
    3583, 3604, 3624, 3644, 3665, 3685, 3705, 3725, 3746, 3766, 3786, 3806,
    3826, 3846, 3867, 3887, 3907, 3927, 3947, 3967, 3987, 4007, 4027, 4047,
    4067, 4087, 4107, 4127, 4146, 4166, 4186, 4206, 4226, 4245, 4265, 4285,
    4305, 4324, 4344, 4364, 4383, 4403, 4422, 4442, 4461, 4481, 4500, 4520,
    4539, 4559, 4578, 4598, 4617, 4636, 4656, 4675, 4694, 4713, 4733, 4752,
    4771, 4790, 4809, 4829, 4848, 4867, 4886, 4905, 4924, 4943, 4962, 4981,
    5000, 5018, 5037, 5056, 5075, 5094, 5112, 5131, 5150, 5169, 5187, 5206,
    5224, 5243, 5262, 5280, 5299, 5317, 5336, 5354, 5372, 5391, 5409, 5428,
    5446, 5464, 5482, 5501, 5519, 5537, 5555, 5573, 5591, 5610, 5628, 5646,
    5664, 5682, 5699, 5717, 5735, 5753, 5771, 5789, 5807, 5824, 5842, 5860,
    5877, 5895, 5913, 5930, 5948, 5965, 5983, 6000, 6018, 6035, 6052, 6070,
    6087, 6104, 6122, 6139, 6156, 6173, 6190, 6208, 6225, 6242, 6259, 6276,
    6293, 6310, 6327, 6343, 6360, 6377, 6394, 6411, 6427, 6444, 6461, 6477,
    6494, 6511, 6527, 6544, 6560, 6577, 6593, 6609, 6626, 6642, 6658, 6675,
    6691, 6707, 6723, 6739, 6755, 6771, 6788, 6804, 6819, 6835, 6851, 6867,
    6883, 6899, 6915, 6930, 6946, 6962, 6977, 6993, 7009, 7024, 7040, 7055,
    7071, 7086, 7101, 7117, 7132, 7147, 7163, 7178, 7193, 7208, 7223, 7238,
    7253, 7268, 7283, 7298, 7313, 7328, 7343, 7358, 7372, 7387, 7402, 7416,
    7431, 7446, 7460, 7475, 7489, 7503, 7518, 7532, 7547, 7561, 7575, 7589,
    7604, 7618, 7632, 7646, 7660, 7674, 7688, 7702, 7716, 7730, 7743, 7757,
    7771, 7785, 7798, 7812, 7826, 7839, 7853, 7866, 7880, 7893, 7906, 7920,
    7933, 7946, 7960, 7973, 7986, 7999, 8012, 8025, 8038, 8051, 8064, 8077,
    8090, 8102, 8115, 8128, 8141, 8153, 8166, 8178, 8191, 8204, 8216, 8228,
    8241, 8253, 8265, 8278, 8290, 8302, 8314, 8326, 8338, 8350, 8362, 8374,
    8386, 8398, 8410, 8422, 8433, 8445, 8457, 8468, 8480, 8492, 8503, 8514,
    8526, 8537, 8549, 8560, 8571, 8582, 8594, 8605, 8616, 8627, 8638, 8649,
    8660, 8671, 8681, 8692, 8703, 8714, 8724, 8735, 8746, 8756, 8767, 8777,
    8788, 8798, 8808, 8819, 8829, 8839, 8849, 8860, 8870, 8880, 8890, 8900,
    8910, 8919, 8929, 8939, 8949, 8959, 8968, 8978, 8987, 8997, 9006, 9016,
    9025, 9035, 9044, 9053, 9063, 9072, 9081, 9090, 9099, 9108, 9117, 9126,
    9135, 9144, 9153, 9161, 9170, 9179, 9187, 9196, 9205, 9213, 9222, 9230,
    9238, 9247, 9255, 9263, 9271, 9279, 9288, 9296, 9304, 9312, 9320, 9327,
    9335, 9343, 9351, 9359, 9366, 9374, 9381, 9389, 9396, 9404, 9411, 9419,
    9426, 9433, 9440, 9448, 9455, 9462, 9469, 9476, 9483, 9490, 9496, 9503,
    9510, 9517, 9523, 9530, 9537, 9543, 9550, 9556, 9563, 9569, 9575, 9581,
    9588, 9594, 9600, 9606, 9612, 9618, 9624, 9630, 9636, 9642, 9647, 9653,
    9659, 9664, 9670, 9675, 9681, 9686, 9692, 9697, 9702, 9708, 9713, 9718,
    9723, 9728, 9733, 9738, 9743, 9748, 9753, 9758, 9762, 9767, 9772, 9776,
    9781, 9785, 9790, 9794, 9799, 9803, 9807, 9812, 9816, 9820, 9824, 9828,
    9832, 9836, 9840, 9844, 9848, 9851, 9855, 9859, 9862, 9866, 9869, 9873,
    9876, 9880, 9883, 9886, 9890, 9893, 9896, 9899, 9902, 9905, 9908, 9911,
    9914, 9917, 9920, 9922, 9925, 9928, 9930, 9933, 9935, 9938, 9940, 9942,
    9945, 9947, 9949, 9951, 9953, 9956, 9958, 9960, 9961, 9963, 9965, 9967,
    9969, 9970, 9972, 9974, 9975, 9977, 9978, 9979, 9981, 9982, 9983, 9985,
    9986, 9987, 9988, 9989, 9990, 9991, 9992, 9993, 9993, 9994, 9995, 9995,
    9996, 9997, 9997, 9998, 9998, 9998, 9999, 9999, 9999, 9999, 9999, 9999,
    10000
>>

\* Math.sin, for angles from -90 to 180 degrees.
Sin(a) ==
    IF a < 0 THEN -SinTable[(-a) + 1]
    ELSE IF a > HalfPi THEN SinTable[(2 * HalfPi - a) + 1]
    ELSE SinTable[a + 1]

\* Math.cos, for angles from -90 to 180 degrees.
Cos(a) == Sin(HalfPi - a)

\* ------------------------------------------------- the motor's equations

\* Phase voltage limit: (vdc / Math.sqrt(3)) * voltageUtilization.
VLim(prm) == TDiv(TDiv(prm.vdc * 10000, SQRT3) * prm.voltageUtilization, 1000)

\* Faulty variant of StepRPM: Math.floor in place of Math.ceil.
StepRPMFloor(prm) == Max(10, prm.maxSpeed \div 100)

\* Simulation resolution: Math.max(10, Math.ceil(maxSpeed / 100)).
StepRPM(prm) == Max(10, CeilDiv(prm.maxSpeed, 100))

\* i_d = -i_mag * Math.sin(rad)
IdAt(i_mag, rad) == -TDiv(i_mag * Sin(rad), 10000)

\* i_q = i_mag * Math.cos(rad)
IqAt(i_mag, rad) == TDiv(i_mag * Cos(rad), 10000)

\* 1.5 * p * (psif * i_q + (ld - lq) * i_d * i_q)
TorqueOf(prm, i_d, i_q) ==
    LET magnet == prm.psif * i_q
        reluct == TDiv((prm.ld - prm.lq) * i_d, 1000) * i_q
    IN  TDiv(3 * prm.p * TDiv(magnet + reluct, 100), 200)

getTorque(prm, i_mag, rad) == TorqueOf(prm, IdAt(i_mag, rad), IqAt(i_mag, rad))

\* rpm * 2 * Math.PI / 60, the mechanical speed.
MechSpeed(rpm) == TDiv(rpm * 2 * PI4, 600)

\* omega = (rpm * 2 * Math.PI / 60) * p, the electrical speed.
Omega(prm, rpm) == TDiv(MechSpeed(rpm) * prm.p, 100)

\* vd = rs*cId - omega*lq*cIq; vq = rs*cIq + omega*(ld*cId + psif);
\* Math.sqrt(vd*vd + vq*vq)
getVoltageMag(prm, omega, cId, cIq) ==
    LET vd == TDiv(prm.rs * cId, 10000)
                - TDiv(TDiv(omega * prm.lq, 1000) * cIq, 100000)
        vq == TDiv(prm.rs * cIq, 10000)
                + TDiv(omega * (TDiv(prm.ld * cId, 1000) + prm.psif), 100000)
    IN  Sqrt(vd * vd + vq * vq)

\* ------------------------------------- 1. the constant torque base point

\* Faulty variant of MtpaStep: t >= maxT_static in place of t > maxT_static,
\* the last of equal maxima kept.
MtpaStepLast(prm, k, acc) ==
    LET rad == k * (AngPerDeg \div 2)
        t   == getTorque(prm, prm.imax, rad)
    IN  IF t >= acc.maxT_static THEN [maxT_static |-> t, betaStart |-> rad] ELSE acc

\* One pass of the MTPA scan, at b = k / 2 degrees:
\* if (t > maxT_static) { maxT_static = t; betaStart = rad; }
MtpaStep(prm, k, acc) ==
    LET rad == k * (AngPerDeg \div 2)
        t   == getTorque(prm, prm.imax, rad)
    IN  IF t > acc.maxT_static THEN [maxT_static |-> t, betaStart |-> rad] ELSE acc

\* The MTPA scan: for (b = 0; b <= 90; b += 0.5), the passes lo .. hi in
\* order.  The range is halved to keep the evaluation shallow; the test on
\* the left half, which always holds, has it evaluated before the right half.
RECURSIVE MtpaScan(_, _, _, _)
MtpaScan(prm, lo, hi, acc) ==
    IF lo = hi THEN MtpaStep(prm, lo, acc)
    ELSE LET mid == (lo + hi) \div 2
             left == MtpaScan(prm, lo, mid, acc)
         IN  IF left.betaStart >= 0 THEN MtpaScan(prm, mid + 1, hi, left) ELSE left

\* Faulty variant of BasePoint: the angle scan runs whatever the strategy.
BasePointScanOnly(prm) == MtpaScan(prm, 0, 180, [maxT_static |-> 0, betaStart |-> 0])

BasePoint(prm) ==
    IF prm.controlStrategy = "Id=0"
    THEN [maxT_static |-> getTorque(prm, prm.imax, 0), betaStart |-> 0]
    ELSE MtpaScan(prm, 0, 180, [maxT_static |-> 0, betaStart |-> 0])

\* -------------------------------------- 2. region 2, flux weakening on

\* The binary search for beta: for (i = 0; i < 20; i++).
RECURSIVE BetaSearch(_, _, _, _, _, _, _, _)
BetaSearch(prm, vlim, omega, i, low, high, optimalB, foundSolution) ==
    IF i >= 20 THEN [optimalB |-> optimalB, foundSolution |-> foundSolution]
    ELSE LET mid    == (low + high) \div 2
             testId == IdAt(prm.imax, mid)
             testIq == IqAt(prm.imax, mid)
         IN  IF getVoltageMag(prm, omega, testId, testIq) <= vlim
             THEN BetaSearch(prm, vlim, omega, i + 1, low, mid, mid, TRUE)
             ELSE BetaSearch(prm, vlim, omega, i + 1, mid, high, optimalB, foundSolution)

\* Faulty variant of FluxWeakening: the currents are taken at the base angle,
\* currentBeta never being moved to the angle the search found.
FluxWeakeningStaleBeta(prm, vlim, omega, beta0) ==
    LET s == BetaSearch(prm, vlim, omega, 0, beta0, HalfPi, HalfPi, FALSE)
    IN  IF s.foundSolution
        THEN [id |-> IdAt(prm.imax, beta0), iq |-> IqAt(prm.imax, beta0),
              beta |-> s.optimalB, found |-> TRUE]
        ELSE [id |-> 0, iq |-> 0, beta |-> beta0, found |-> FALSE]

\* Faulty variant of FluxWeakening: a search without a candidate leaves the
\* currents at the base point.
FluxWeakeningKeepBase(prm, vlim, omega, beta0) ==
    LET s == BetaSearch(prm, vlim, omega, 0, beta0, HalfPi, HalfPi, FALSE)
    IN  IF s.foundSolution
        THEN [id |-> IdAt(prm.imax, s.optimalB), iq |-> IqAt(prm.imax, s.optimalB),
              beta |-> s.optimalB, found |-> TRUE]
        ELSE [id |-> IdAt(prm.imax, beta0), iq |-> IqAt(prm.imax, beta0),
              beta |-> beta0, found |-> FALSE]

FluxWeakening(prm, vlim, omega, beta0) ==
    LET s == BetaSearch(prm, vlim, omega, 0, beta0, HalfPi, HalfPi, FALSE)
    IN  IF s.foundSolution
        THEN [id |-> IdAt(prm.imax, s.optimalB), iq |-> IqAt(prm.imax, s.optimalB),
              beta |-> s.optimalB, found |-> TRUE]
        ELSE [id |-> 0, iq |-> 0, beta |-> beta0, found |-> FALSE]

\* ------------------------------------- 2. region 2, flux weakening off

\* let maxT_local = -1e9
MinusInf == -1000000000

\* Coarse scan: for (b = 0; b <= 90; b += 5).
RECURSIVE CoarseScan(_, _, _, _, _)
CoarseScan(prm, midI, b, maxT_local, tBeta) ==
    IF b > 90 THEN [maxT_local |-> maxT_local, tBeta |-> tBeta]
    ELSE LET rad == b * AngPerDeg
             t   == getTorque(prm, midI, rad)
         IN  IF t > maxT_local THEN CoarseScan(prm, midI, b + 5, t, rad)
                               ELSE CoarseScan(prm, midI, b + 5, maxT_local, tBeta)

\* Fine scan: for (b = bestDeg - 4; b <= bestDeg + 4; b += 1).
RECURSIVE FineScan(_, _, _, _, _, _)
FineScan(prm, midI, b, bestDeg, maxT_local, tBeta) ==
    IF b > bestDeg + 4 THEN tBeta
    ELSE LET rad == b * AngPerDeg
             t   == getTorque(prm, midI, rad)
         IN  IF t > maxT_local THEN FineScan(prm, midI, b + 1, bestDeg, t, rad)
                               ELSE FineScan(prm, midI, b + 1, bestDeg, maxT_local, tBeta)

\* The MTPA angle for the reduced current level midI.
TrialBeta(prm, midI) ==
    IF prm.controlStrategy = "Id=0" THEN 0
    ELSE LET c       == CoarseScan(prm, midI, 0, MinusInf, 0)
             bestDeg == c.tBeta \div AngPerDeg
         IN  FineScan(prm, midI, bestDeg - 4, bestDeg, c.maxT_local, c.tBeta)

\* Faulty variant of CurrentSearch: the first feasible trial is kept, later
\* feasible trials not replacing it.
RECURSIVE CurrentSearchFirst(_, _, _, _, _, _, _)
CurrentSearchFirst(prm, vlim, omega, i, lowI, highI, valid) ==
    IF i >= 15 THEN valid
    ELSE LET midI  == (lowI + highI) \div 2
             tBeta == TrialBeta(prm, midI)
             tId   == IdAt(midI, tBeta)
             tIq   == IqAt(midI, tBeta)
         IN  IF getVoltageMag(prm, omega, tId, tIq) <= vlim
             THEN CurrentSearchFirst(prm, vlim, omega, i + 1, midI, highI,
                      IF valid.found THEN valid
                      ELSE [id |-> tId, iq |-> tIq, beta |-> tBeta, found |-> TRUE])
             ELSE CurrentSearchFirst(prm, vlim, omega, i + 1, lowI, midI, valid)

\* The binary search for the current magnitude: for (i = 0; i < 15; i++).
RECURSIVE CurrentSearch(_, _, _, _, _, _, _)
CurrentSearch(prm, vlim, omega, i, lowI, highI, valid) ==
    IF i >= 15 THEN valid
    ELSE LET midI  == (lowI + highI) \div 2
             tBeta == TrialBeta(prm, midI)
             tId   == IdAt(midI, tBeta)
             tIq   == IqAt(midI, tBeta)
         IN  IF getVoltageMag(prm, omega, tId, tIq) <= vlim
             THEN CurrentSearch(prm, vlim, omega, i + 1, midI, highI,
                      [id |-> tId, iq |-> tIq, beta |-> tBeta, found |-> TRUE])
             ELSE CurrentSearch(prm, vlim, omega, i + 1, lowI, midI, valid)

VoltageLimited(prm, vlim, omega) ==
    CurrentSearch(prm, vlim, omega, 0, 0, prm.imax,
                  [id |-> 0, iq |-> 0, beta |-> 0, found |-> FALSE])

\* --------------------------------------------------- one pass of the loop

\* Faulty variant of SafeClamp: the value is surfaced as computed.
SafeClampOff(x) == x

\* Math.max(0, torque), Math.max(0, powerkW)
SafeClamp(x) == Max(0, x)

\* powerW = torque * (rpm * 2 * Math.PI / 60); powerkW = powerW / 1000
PowerKW(torque, rpm) == TDiv(TDiv(torque, 100) * TDiv(MechSpeed(rpm), 100), 1000)

\* Faulty variant of VoltageIndex: the ratio without Math.min.
VoltageIndexUnclamped(vMag_final, vlim) == TDiv(vMag_final * 10000, vlim)

\* voltageIndex: Math.min(1, vMag_final / vLim)
VoltageIndex(vMag_final, vlim) == Min(10000, TDiv(vMag_final * 10000, vlim))

\* currentAngle: (currentBeta * 180) / Math.PI, in millidegrees.
ToDegrees(rad) == TDiv(rad * 1000, AngPerDeg)

\* Faulty variant of BaseSpeedAfter: assigned at every failing speed.
BaseSpeedAfterAlways(found, base, r, step) == Max(0, r - step)

\* if (!baseSpeedFound) { baseSpeed = Math.max(0, rpm - stepRPM); ... }
BaseSpeedAfter(found, base, r, step) == IF ~found THEN Max(0, r - step) ELSE base

\* Faulty variant of MaxPowerAfter: assigned without the comparison.
MaxPowerLast(maxP, safePower) == safePower

\* if (safePower > maxPower) maxPower = safePower
MaxPowerAfter(maxP, safePower) == IF safePower > maxP THEN safePower ELSE maxP

\* Faulty variant of StopsSweep: rpm >= 100 in place of rpm > 100.
StopsSweepFrom100(r, safeTorque) == r >= 100 /\ safeTorque < 10000

\* if (rpm > 100 && safeTorque < 0.01) break
StopsSweep(r, safeTorque) == r > 100 /\ safeTorque < 10000

\* Faulty variant of SimulationResult: maxTorque recomputed as the peak torque
\* of the points.
SimulationResultPeak(pts, maxT, base, maxP) ==
    LET torques == { pts[i].torque : i \in 1..Len(pts) }
        peak    == IF torques = {} THEN 0
                   ELSE CHOOSE t \in torques : \A u \in torques : u <= t
    IN  [points |-> pts, maxTorque |-> peak, baseSpeed |-> base, maxPower |-> maxP]

\* return { points, maxTorque, baseSpeed, maxPower }
SimulationResult(pts, maxT, base, maxP) ==
    [points |-> pts, maxTorque |-> maxT, baseSpeed |-> base, maxPower |-> maxP]

\* Faulty variant of OperatingPoint: with flux weakening on, the angle search
\* runs at every speed, from angle 0, the base point's voltage check skipped.
OperatingPointEager(prm, vlim, omega, idb, iqb, beta0) ==
    IF prm.enableFluxWeakening
    THEN [region |-> "FW"] @@ FluxWeakening(prm, vlim, omega, 0)
    ELSE IF getVoltageMag(prm, omega, idb, iqb) <= vlim
    THEN [id |-> idb, iq |-> iqb, beta |-> beta0, found |-> TRUE, region |-> "R1"]
    ELSE [region |-> "MAG"] @@ VoltageLimited(prm, vlim, omega)

\* Faulty variant of OperatingPoint: the search that enableFluxWeakening selects
\* runs at every speed, the base point never kept as it is.
OperatingPointAlwaysSearch(prm, vlim, omega, idb, iqb, beta0) ==
    IF prm.enableFluxWeakening
    THEN [region |-> "FW"] @@ FluxWeakening(prm, vlim, omega, beta0)
    ELSE [region |-> "MAG"] @@ VoltageLimited(prm, vlim, omega)

\* The operating point of one speed: region 1 keeps the base point, region 2
\* runs the search that enableFluxWeakening selects.
OperatingPoint(prm, vlim, omega, idb, iqb, beta0) ==
    IF getVoltageMag(prm, omega, idb, iqb) <= vlim
    THEN [id |-> idb, iq |-> iqb, beta |-> beta0, found |-> TRUE, region |-> "R1"]
    ELSE IF prm.enableFluxWeakening
    THEN [region |-> "FW"] @@ FluxWeakening(prm, vlim, omega, beta0)
    ELSE [region |-> "MAG"] @@ VoltageLimited(prm, vlim, omega)

\* ------------------------------------------------------------- the inputs

Motor(rs, ld, lq, psif, p, vdc, eta, imax) ==
    [rs |-> rs, ld |-> ld, lq |-> lq, psif |-> psif, p |-> p, vdc |-> vdc,
     voltageUtilization |-> eta, imax |-> imax]

\* DEFAULT_PARAMS: 59.5 mOhm, 23.5 uH, 35 uH, 1.59 mWb, 15 pole pairs,
\* 18.5 V, 0.9, 13 A.
DefaultMotor == Motor(595, 235, 350, 15900, 15, 18500, 900, 13000)

\* The sweep ceilings drawn, in 1000 RPM.
MaxSweepK == 5

\* The number of invocations App makes in one behaviour.
MaxCalls == 3

Motors ==
    { DefaultMotor,
      [DefaultMotor EXCEPT !.imax = 0],
      [DefaultMotor EXCEPT !.rs = 10000],
      Motor(5000, 3000, 1500, 15900, 4, 24000, 900, 25000),
      [DefaultMotor EXCEPT !.ld = 350, !.lq = 350],
      [DefaultMotor EXCEPT !.ld = 1300, !.lq = 1600] }

\* A motor with ld > lq and ld * imax > psif: 0.15 Ohm, 4.5 mH, 2.4 mH, 10 mWb,
\* 4 pole pairs, 18.5 V, 0.9, 10 A. It is swept to 1000 RPM.
InverseSaliencyMotor == Motor(1500, 45000, 24000, 100000, 4, 18500, 900, 10000)

Strategies == {"MTPA", "Id=0"}

SweepCeilings == {0, 95, 1000, 1099, 1000 * MaxSweepK}

MotorParams(m, strategy, fw, maxSpeed) ==
    [motorType |-> IF m.ld = m.lq THEN "SPMSM" ELSE "IPMSM",
     controlStrategy |-> strategy, enableFluxWeakening |-> fw,
     maxSpeed |-> maxSpeed] @@ m

ParamSpace ==
    { MotorParams(m, s, fw, ms) :
        m \in Motors, s \in Strategies, fw \in BOOLEAN, ms \in SweepCeilings }
    \cup
    { MotorParams(InverseSaliencyMotor, s, fw, 1000) :
        s \in Strategies, fw \in BOOLEAN }

\* The records of the repeated invocations.
CallSpace ==
    { MotorParams(m, s, fw, ms) :
        m \in {DefaultMotor}, s \in Strategies, fw \in BOOLEAN,
        ms \in {200, 1000 * MaxSweepK} }

\* -------------------------------------------------------------- the state

VARIABLES
    params,          \* the MotorParams record the caller passes
    pc,              \* "loop", "break", "done"
    rpm,             \* the loop variable
    points,          \* SimulationPoint[]
    maxTorque, maxPower, baseSpeed, baseSpeedFound,
    vLim, stepRPM, betaStart, id_base, iq_base,
    result,          \* the returned SimulationResult, NoResult before the return
    aux,             \* per point: the region, the search's outcome, raw values
    calls,           \* invocations started
    first,           \* the first invocation's params and result, once a later one starts
    interleaved,     \* an invocation on another record was made since the first
    suggestion       \* what calculateTheoreticalMaxSpeed last returned to the form

vars == <<params, pc, rpm, points, maxTorque, maxPower, baseSpeed, baseSpeedFound,
          vLim, stepRPM, betaStart, id_base, iq_base, result, aux, calls, first,
          interleaved, suggestion>>

NoResult == [points |-> <<>>, maxTorque |-> -1, baseSpeed |-> -1, maxPower |-> -1]

NoCall == [params |-> "none", result |-> NoResult]

NoSuggestion == [speed |-> -1, divisor |-> -1]

\* Faulty variant of FreshFound: the flag lives outside the function and keeps
\* the value the previous invocation left.
StaleFound(previous) == previous

\* baseSpeedFound at the entry of calculateMotorCharacteristics.
FreshFound(previous) == FALSE

\* Entry of calculateMotorCharacteristics up to the loop: the locals.
Begin(prm) ==
    LET base == BasePoint(prm)
    IN  /\ params' = prm
        /\ pc' = "loop"
        /\ rpm' = 0
        /\ points' = <<>>
        /\ aux' = <<>>
        /\ maxPower' = 0
        /\ baseSpeed' = 0
        /\ baseSpeedFound' = FreshFound(baseSpeedFound)
        /\ vLim' = VLim(prm)
        /\ stepRPM' = StepRPM(prm)
        /\ betaStart' = base.betaStart
        /\ id_base' = IdAt(prm.imax, base.betaStart)
        /\ iq_base' = IqAt(prm.imax, base.betaStart)
        /\ maxTorque' = base.maxT_static
        /\ result' = NoResult

Enter(prm) ==
    LET base == BasePoint(prm)
    IN  /\ params = prm
        /\ pc = "loop"
        /\ rpm = 0
        /\ points = <<>>
        /\ aux = <<>>
        /\ maxPower = 0
        /\ baseSpeed = 0
        /\ baseSpeedFound = FALSE
        /\ vLim = VLim(prm)
        /\ stepRPM = StepRPM(prm)
        /\ betaStart = base.betaStart
        /\ id_base = IdAt(prm.imax, base.betaStart)
        /\ iq_base = IqAt(prm.imax, base.betaStart)
        /\ maxTorque = base.maxT_static
        /\ result = NoResult
        /\ calls = 1
        /\ first = NoCall
        /\ interleaved = FALSE
        /\ suggestion = NoSuggestion

\* App's first render computes the curve of its initial parameter record.
Init == \E prm \in ParamSpace : Enter(prm)

InitCalls == \E prm \in CallSpace : Enter(prm)

\* One pass of for (rpm = 0; rpm <= maxSpeed; rpm += stepRPM).
Iterate ==
    /\ pc = "loop"
    /\ rpm <= params.maxSpeed
    /\ \E omega \in {Omega(params, rpm)} :
       \E vMag_base \in {getVoltageMag(params, omega, id_base, iq_base)} :
       \E cur \in {OperatingPoint(params, vLim, omega, id_base, iq_base, betaStart)} :
       \E torque \in {TorqueOf(params, cur.id, cur.iq)} :
       \E vMag_final \in {getVoltageMag(params, omega, cur.id, cur.iq)} :
       LET powerkW    == PowerKW(torque, rpm)
           safeTorque == SafeClamp(torque)
           safePower  == SafeClamp(powerkW)
       IN  /\ baseSpeed' = IF vMag_base <= vLim THEN baseSpeed
                           ELSE BaseSpeedAfter(baseSpeedFound, baseSpeed, rpm, stepRPM)
           /\ baseSpeedFound' = (baseSpeedFound \/ ~(vMag_base <= vLim))
           /\ maxPower' = MaxPowerAfter(maxPower, safePower)
           /\ points' = Append(points,
                  [speedRPM |-> rpm, torque |-> safeTorque, power |-> safePower,
                   voltageIndex |-> VoltageIndex(vMag_final, vLim),
                   currentAngle |-> ToDegrees(cur.beta),
                   id |-> cur.id, iq |-> cur.iq])
           /\ aux' = Append(aux,
                  [region |-> cur.region, found |-> cur.found, omega |-> omega,
                   vMag_base |-> vMag_base, vMag_final |-> vMag_final,
                   torque |-> torque, powerkW |-> powerkW])
           /\ IF StopsSweep(rpm, safeTorque)
              THEN pc' = "break" /\ rpm' = rpm
              ELSE pc' = "loop" /\ rpm' = rpm + stepRPM
    /\ UNCHANGED <<params, maxTorque, vLim, stepRPM, betaStart, id_base, iq_base,
                   result, calls, first, interleaved, suggestion>>

\* The loop is left, by its condition or by the break, and the result returned.
Return ==
    /\ \/ pc = "break"
       \/ pc = "loop" /\ rpm > params.maxSpeed
    /\ pc' = "done"
    /\ result' = SimulationResult(points, maxTorque, baseSpeed, maxPower)
    /\ UNCHANGED <<params, rpm, points, aux, maxTorque, maxPower, baseSpeed,
                   baseSpeedFound, vLim, stepRPM, betaStart, id_base, iq_base,
                   calls, first, interleaved, suggestion>>

\* App renders again with a changed or an equal parameter record and calls
\* calculateMotorCharacteristics on it.
Invoke(prm) ==
    /\ pc = "done"
    /\ calls < MaxCalls
    /\ calls' = calls + 1
    /\ first' = IF calls = 1 THEN [params |-> params, result |-> result] ELSE first
    /\ interleaved' = (calls > 1 /\ (interleaved \/ params # first.params))
    /\ Begin(prm)
    /\ UNCHANGED suggestion

Next == Iterate \/ Return

Spec == Init /\ [][Next]_vars

NextCalls == Iterate \/ Return \/ \E prm \in CallSpace : Invoke(prm)

SpecCalls == InitCalls /\ [][NextCalls]_vars


\* ------------------------------------------ calculateTheoreticalMaxSpeed

\* Fluxes are in 1e-10 Wb here, the unit of ld * imax; psif is 1000 of them.
\* (vLim / flux) * 60 / (2 pi p) / 100, with vLim in mV and the flux in
\* 1e-10 Wb, is vLim * 954929.66 / (flux * p): RpmScale * 128.
RpmScale == 7460

\* The largest quotient whose 128-fold, in hundreds of RPM, is an integer of
\* the model.
MaxQuotient == (2147483647 \div 100) \div 128

\* A speed above the integers of the model.
Unrepresentable == -2

\* n steps of binary long division: the quotient and remainder of
\* (q * d + r) * 2^n by d.
RECURSIVE LongDivide(_, _, _, _)
LongDivide(q, r, d, n) ==
    IF n = 0 THEN [q |-> q, r |-> r]
    ELSE IF 2 * r >= d THEN LongDivide(2 * q + 1, 2 * r - d, d, n - 1)
                       ELSE LongDivide(2 * q, 2 * r, d, n - 1)

\* Faulty variant of CeilHundreds: Math.floor in place of Math.ceil.
FloorHundreds(q, r) == q

\* Math.ceil(maxRPM / 100), from the quotient and remainder of maxRPM / 100.
CeilHundreds(q, r) == IF r > 0 THEN q + 1 ELSE q

\* maxRadS = vLim / flux; maxRPM = (maxRadS * 60) / (2 * Math.PI * p);
\* return Math.ceil(maxRPM / 100) * 100
RoundedUpRPM(vlim, flux, p) ==
    LET y  == vlim * RpmScale
        d  == flux * p
    IN  IF y \div d > MaxQuotient THEN Unrepresentable
        ELSE LET x == LongDivide(y \div d, y % d, d, 7)
             IN  CeilHundreds(x.q, x.r) * 100

\* return 20000
Sentinel == 20000

\* 1e-9 Wb
EpsilonFlux == 10

\* Faulty variant of ResidualTooSmall: the guard against a small divisor is
\* not there.
ResidualNeverTooSmall(residualFlux) == FALSE

\* if (residualFlux < 1e-9) return 20000
ResidualTooSmall(residualFlux) == residualFlux < EpsilonFlux

\* calculateTheoreticalMaxSpeed, with the flux it divided by, -1 when it
\* returned without dividing.  imax >= psif / ld is compared as
\* imax * ld >= psif.
MaxSpeedCase(prm) ==
    LET vlim         == VLim(prm)
        psif10       == prm.psif * 1000
        residual     == psif10 - prm.ld * prm.imax
        residualFlux == IF residual < 0 THEN -residual ELSE residual
    IN  IF ~prm.enableFluxWeakening
        THEN [speed |-> RoundedUpRPM(vlim, psif10, prm.p), divisor |-> psif10]
        ELSE IF prm.imax * prm.ld >= psif10
        THEN [speed |-> Sentinel, divisor |-> -1]
        ELSE IF ResidualTooSmall(residualFlux)
        THEN [speed |-> Sentinel, divisor |-> -1]
        ELSE [speed |-> RoundedUpRPM(vlim, residualFlux, prm.p),
              divisor |-> residualFlux]

calculateTheoreticalMaxSpeed(prm) == MaxSpeedCase(prm).speed

\* ------------------------------------------------------ the parameter form

\* DEFAULT_PARAMS
DefaultParams == MotorParams(DefaultMotor, "MTPA", FALSE, 5000)

\* The numbers typed into the fields; rs is typed in mOhm and arrives here
\* in 0.1 mOhm, what numValue / 1000 stores.  With psif = 1.59 mWb,
\* ld = 122.6 uH and imax = 12.969 A leave a residual flux of 6e-10 Wb.
TypedValues ==
    [rs |-> {300}, psif |-> {20000}, ld |-> {350, 1226, 1300}, lq |-> {235, 1226},
     p |-> {4}, vdc |-> {48000}, voltageUtilization |-> {1000},
     imax |-> {12969, 13000}, maxSpeed |-> {1000}]

\* The numeric fields the form shows: ld and lq are fields of the IPMSM view
\* only.
ShownFields(prm) ==
    {"rs", "psif", "p", "vdc", "voltageUtilization", "imax", "maxSpeed"}
        \cup (IF prm.motorType = "IPMSM" THEN {"ld", "lq"} ELSE {})

\* Faulty variant of WithMotorType: lq is left as it is.
WithMotorTypeOnly(prm, type) == [prm EXCEPT !.motorType = type]

\* newParams = { ...params, motorType: type };
\* if (type === 'SPMSM') newParams.lq = newParams.ld
WithMotorType(prm, type) ==
    IF type = "SPMSM" THEN [prm EXCEPT !.motorType = type, !.lq = prm.ld]
                      ELSE [prm EXCEPT !.motorType = type]

\* onChange = setParams: the form hands App the new record; the curve's
\* variables are not the form's.
FormKeeps ==
    UNCHANGED <<pc, rpm, points, maxTorque, maxPower, baseSpeed, baseSpeedFound,
                vLim, stepRPM, betaStart, id_base, iq_base, result, aux, calls,
                first, interleaved>>

handleParamChange ==
    /\ pc = "form"
    /\ \E key \in ShownFields(params) : \E numValue \in TypedValues[key] :
          params' = [params EXCEPT ![key] = numValue]
    /\ suggestion' = NoSuggestion
    /\ FormKeeps

handleTypeChange ==
    /\ pc = "form"
    /\ \E type \in {"IPMSM", "SPMSM"} : params' = WithMotorType(params, type)
    /\ suggestion' = NoSuggestion
    /\ FormKeeps

handleStrategyChange ==
    /\ pc = "form"
    /\ \E strategy \in Strategies : params' = [params EXCEPT !.controlStrategy = strategy]
    /\ suggestion' = NoSuggestion
    /\ FormKeeps

handleFwChange ==
    /\ pc = "form"
    /\ \E checked \in BOOLEAN : params' = [params EXCEPT !.enableFluxWeakening = checked]
    /\ suggestion' = NoSuggestion
    /\ FormKeeps

\* The single synchronous inductance, a field of the SPMSM view.
handleLsChange ==
    /\ pc = "form"
    /\ params.motorType = "SPMSM"
    /\ \E numValue \in TypedValues.ld :
          params' = [params EXCEPT !.ld = numValue, !.lq = numValue]
    /\ suggestion' = NoSuggestion
    /\ FormKeeps

handleAutoMaxSpeed ==
    /\ pc = "form"
    /\ suggestion' = MaxSpeedCase(params)
    /\ params' = [params EXCEPT !.maxSpeed = calculateTheoreticalMaxSpeed(params)]
    /\ FormKeeps

\* App starts with DEFAULT_PARAMS and the form is shown.  suggestion is what
\* calculateTheoreticalMaxSpeed returned for the record as it is, NoSuggestion
\* once a field has been edited since.
InitForm ==
    /\ params = DefaultParams
    /\ pc = "form"
    /\ rpm = 0
    /\ points = <<>>
    /\ aux = <<>>
    /\ maxTorque = 0
    /\ maxPower = 0
    /\ baseSpeed = 0
    /\ baseSpeedFound = FALSE
    /\ vLim = VLim(DefaultParams)
    /\ stepRPM = StepRPM(DefaultParams)
    /\ betaStart = 0
    /\ id_base = 0
    /\ iq_base = 0
    /\ result = NoResult
    /\ calls = 0
    /\ first = NoCall
    /\ interleaved = FALSE
    /\ suggestion = NoSuggestion

NextForm ==
    \/ handleParamChange
    \/ handleTypeChange
    \/ handleStrategyChange
    \/ handleFwChange
    \/ handleLsChange
    \/ handleAutoMaxSpeed

SpecForm == InitForm /\ [][NextForm]_vars
\* ------------------------------------------------------------- the claims

\* The voltage magnitude of the i-th point, evaluated from the fields the
\* point reports, at omega = speedRPM * (2 pi / 60) * p.
PointVoltage(i) ==
    getVoltageMag(params, Omega(params, points[i].speedRPM), points[i].id, points[i].iq)

\* The voltage magnitude of the base operating point at speed r.
BaseVoltage(r) == getVoltageMag(params, Omega(params, r), id_base, iq_base)

WithinCurrentLimit(i) ==
    points[i].id * points[i].id + points[i].iq * points[i].iq
        <= params.imax * params.imax

\* C1 as stated: every emitted point honors the current limit and the voltage
\* limit at its speed, the points where a search found no candidate included.
C1_AllPointsFeasible ==
    \A i \in 1..Len(points) :
        WithinCurrentLimit(i) /\ PointVoltage(i) <= VLim(params)

\* C1 amended: every emitted point honors the current limit; a Region-1 point
\* and a point of a search that found a candidate honor the voltage limit; a
\* point of a search that found none is id = iq = 0, whatever its voltage.
C1_FoundPointsFeasible ==
    \A i \in 1..Len(points) :
        /\ WithinCurrentLimit(i)
        /\ aux[i].found => PointVoltage(i) <= VLim(params)
        /\ ~aux[i].found => points[i].id = 0 /\ points[i].iq = 0

C1_Witness ==
    /\ \E i \in 1..Len(points) :
          aux[i].region = "FW" /\ aux[i].found /\ PointVoltage(i) <= VLim(params)
    /\ \E j \in 1..Len(points) :
          ~aux[j].found /\ PointVoltage(j) > VLim(params)

\* C2: voltageIndex of every point is min(1, finalVoltageMagnitude / vLim)
\* and lies in [0, 1].
C2_VoltageIndex ==
    \A i \in 1..Len(points) :
        /\ points[i].voltageIndex
              = Min(10000, TDiv(PointVoltage(i) * 10000, VLim(params)))
        /\ points[i].voltageIndex >= 0
        /\ points[i].voltageIndex <= 10000

C2_Witness ==
    /\ \E i \in 1..Len(points) :
          PointVoltage(i) > VLim(params) /\ points[i].voltageIndex = 10000
    /\ \E j \in 1..Len(points) :
          points[j].voltageIndex > 0 /\ points[j].voltageIndex < 10000

\* C3: with stepRPM = max(10, ceil(maxSpeed / 100)) the k-th point is at
\* k * stepRPM, speeds increase by exactly stepRPM and never exceed maxSpeed;
\* the loop variable is the number of points times stepRPM, so that the sweep
\* ends within 101 passes, and a result holds between 1 and 101 points.
C3_Grid ==
    LET ceil100 == (params.maxSpeed + 99) \div 100
        step    == IF ceil100 > 10 THEN ceil100 ELSE 10
    IN  /\ stepRPM = step
        /\ \A k \in 1..Len(points) :
              /\ points[k].speedRPM = (k - 1) * step
              /\ points[k].speedRPM <= params.maxSpeed
              /\ k > 1 => points[k].speedRPM - points[k - 1].speedRPM = step
              /\ k > 1 => points[k].speedRPM > points[k - 1].speedRPM
        /\ Len(points) <= 101
        /\ pc = "loop" => rpm = Len(points) * step
        /\ pc = "break" => rpm = (Len(points) - 1) * step
        /\ pc = "done" => result.points = points /\ Len(result.points) >= 1

C3_Witness == pc = "done" /\ Len(result.points) = 101

\* The points whose speed fails the base-point voltage check.
FailIdx == { i \in 1..Len(points) : BaseVoltage(points[i].speedRPM) > vLim }

IsFirst(F, f) == f \in F /\ \A g \in F : f <= g

TorqueFields(prm) ==
    [prm EXCEPT !.maxSpeed = 0, !.rs = 0, !.vdc = 0, !.voltageUtilization = 0,
                !.enableFluxWeakening = FALSE]

\* C5: maxTorque is 1.5 p [psif iq_base + (ld - lq) id_base iq_base] at the
\* base point of the strategy, a function of the strategy, ld, lq, psif, p
\* and imax alone, and the result returns it as it is, not the peak of the
\* points.
C5_MaxTorque ==
    /\ id_base = IdAt(params.imax, betaStart)
    /\ iq_base = IqAt(params.imax, betaStart)
    /\ params.controlStrategy = "Id=0" => betaStart = 0
    /\ maxTorque = TorqueOf(params, id_base, iq_base)
    /\ maxTorque = BasePoint(TorqueFields(params)).maxT_static
    /\ pc = "done" => result.maxTorque = TorqueOf(params, id_base, iq_base)

C5_Witness ==
    /\ pc = "done"
    /\ result.maxTorque > 0
    /\ params.controlStrategy = "MTPA"
    /\ betaStart > 0
    /\ \A i \in 1..Len(result.points) : result.points[i].torque < result.maxTorque

\* C6: maxPower is the maximum of the points' power: no point exceeds it, a
\* point attains it when it is positive, and it is 0 when every power is 0.
C6_MaxPower ==
    LET powers == { points[i].power : i \in 1..Len(points) }
    IN  /\ \A x \in powers : x <= maxPower
        /\ maxPower > 0 => maxPower \in powers
        /\ powers \subseteq {0} => maxPower = 0
        /\ pc = "done" => result.maxPower = maxPower /\ result.points = points

C6_Witness ==
    /\ pc = "done"
    /\ result.maxPower > 0
    /\ result.points[Len(result.points)].power < result.maxPower
    /\ result.points[1].power = 0

\* C7: every point has torque >= 0 and power >= 0, each the computed value
\* clamped at 0, and the first point, at speed 0, has power 0.
C7_NonNegative ==
    /\ \A i \in 1..Len(points) :
          /\ points[i].torque >= 0
          /\ points[i].power >= 0
          /\ points[i].torque = Max(0, TorqueOf(params, points[i].id, points[i].iq))
    /\ Len(points) >= 1 => points[1].speedRPM = 0 /\ points[1].power = 0

C7_Witness ==
    \E i \in 1..Len(points) :
        /\ TorqueOf(params, points[i].id, points[i].iq) < 0
        /\ aux[i].powerkW < 0
        /\ points[i].torque = 0
        /\ points[i].power = 0

\* A point that ends the sweep: speed above 100 RPM and torque below 0.01 Nm.
EndsSweep(pt) == pt.speedRPM > 100 /\ pt.torque < 10000

\* C8: a point with speed > 100 and torque < 0.01 is the last point and the
\* loop is left right after it; no other point ends the sweep, however small
\* its torque; without such a point the result holds every grid speed up to
\* maxSpeed.
C8_EarlyStop ==
    /\ \A i \in 1..(Len(points) - 1) : ~EndsSweep(points[i])
    /\ pc = "loop" => \A i \in 1..Len(points) : ~EndsSweep(points[i])
    /\ pc = "break" => Len(points) >= 1 /\ EndsSweep(points[Len(points)])
    /\ (pc = "done" /\ \A i \in 1..Len(result.points) : ~EndsSweep(result.points[i]))
          => \A k \in 0..(params.maxSpeed \div stepRPM) :
                /\ k + 1 <= Len(result.points)
                /\ result.points[k + 1].speedRPM = k * stepRPM

C8_Witness ==
    /\ pc = "done"
    /\ EndsSweep(result.points[Len(result.points)])
    /\ result.points[1].torque < 10000
    /\ Len(result.points) > 2
    /\ result.points[Len(result.points)].speedRPM + stepRPM <= params.maxSpeed

\* C9, on the results: an invocation on the record of the first invocation
\* returns the first invocation's result, points in order, maxTorque,
\* baseSpeed and maxPower, whatever was invoked in between.
C9_SameResult ==
    (pc = "done" /\ calls > 1 /\ params = first.params) => result = first.result

\* C9: the above, and from its entry to its return an invocation leaves the
\* parameter record as it was given.
C9_Pure == []C9_SameResult /\ [][pc # "done" => params' = params]_vars

C9_Witness ==
    /\ pc = "done"
    /\ calls = 3
    /\ interleaved
    /\ params = first.params
    /\ result.baseSpeed > 0
    /\ Len(result.points) > 1

DiffersOnlyInFluxWeakening(a, b) ==
    /\ a.enableFluxWeakening # b.enableFluxWeakening
    /\ [a EXCEPT !.enableFluxWeakening = b.enableFluxWeakening] = b

\* The i-th grid speed and all before it pass the base-point voltage check.
InRegion1Prefix(i) == \A j \in 1..i : BaseVoltage((j - 1) * stepRPM) <= vLim

\* C10: two records that differ only in enableFluxWeakening give the same
\* baseSpeed and maxTorque, and the same point at every swept speed before the
\* first speed whose base-point voltage exceeds vLim.
C10_FluxWeakeningOnlyAfterBase ==
    (pc = "done" /\ calls > 1 /\ DiffersOnlyInFluxWeakening(params, first.params)) =>
        /\ result.baseSpeed = first.result.baseSpeed
        /\ result.maxTorque = first.result.maxTorque
        /\ \A i \in 1..Max(Len(result.points), Len(first.result.points)) :
              InRegion1Prefix(i) =>
                  /\ i <= Len(result.points) <=> i <= Len(first.result.points)
                  /\ i <= Len(result.points) => result.points[i] = first.result.points[i]

C10_Witness ==
    /\ pc = "done"
    /\ calls > 1
    /\ DiffersOnlyInFluxWeakening(params, first.params)
    /\ result.baseSpeed > 0
    /\ result.points # first.result.points
    /\ InRegion1Prefix(2)


\* ------------------------------------------------ the claims, continued

\* C13: under the Id=0 strategy a point at a speed not above baseSpeed has
\* id = 0; a point has id < 0 only with flux weakening on, at a speed above
\* baseSpeed; with flux weakening off every point has id = 0 and angle 0.
C13_ZeroD ==
    params.controlStrategy = "Id=0" =>
        \A i \in 1..Len(points) :
            /\ points[i].speedRPM <= baseSpeed => points[i].id = 0
            /\ ~baseSpeedFound => points[i].id = 0
            /\ points[i].id < 0 =>
                  /\ params.enableFluxWeakening
                  /\ baseSpeedFound
                  /\ points[i].speedRPM > baseSpeed
            /\ ~params.enableFluxWeakening =>
                  points[i].id = 0 /\ points[i].currentAngle = 0

C13_Witness ==
    /\ pc = "done"
    /\ params.controlStrategy = "Id=0"
    /\ params.enableFluxWeakening
    /\ result.baseSpeed > 0
    /\ \E i \in 1..Len(points) : points[i].speedRPM <= baseSpeed /\ points[i].id = 0
    /\ \E j \in 1..Len(points) : points[j].speedRPM > baseSpeed /\ points[j].id < 0

\* The points of a flux-weakening search that found no candidate.
IsFallback(i) == aux[i].region = "FW" /\ ~aux[i].found

\* The voltage magnitude at zero current: the back-EMF omega * psif.
BackEmf(i) == getVoltageMag(params, aux[i].omega, 0, 0)

\* C14 amended: a flux-weakening search without a feasible midpoint gives
\* id = iq = 0, zero torque and power, and the voltage magnitude of the
\* back-EMF omega * psif, zero at speed 0 only; voltageIndex is
\* min(1, omega * psif / vLim).
C14_Fallback ==
    \A i \in 1..Len(points) :
        IsFallback(i) =>
            /\ points[i].id = 0 /\ points[i].iq = 0
            /\ points[i].torque = 0 /\ points[i].power = 0
            /\ aux[i].vMag_final = BackEmf(i)
            /\ BackEmf(i) = TDiv(aux[i].omega * params.psif, 100000)
            /\ points[i].voltageIndex = Min(10000, TDiv(BackEmf(i) * 10000, vLim))
            /\ points[i].speedRPM = 0 => points[i].voltageIndex = 0

\* C14 as stated: the point of such a search has voltage magnitude 0 and
\* voltageIndex 0.
C14_FallbackZeroVoltage ==
    \A i \in 1..Len(points) :
        IsFallback(i) =>
            /\ points[i].id = 0 /\ points[i].iq = 0 /\ points[i].torque = 0
            /\ aux[i].vMag_final = 0
            /\ points[i].voltageIndex = 0

C14_Witness ==
    \E i \in 1..Len(points) :
        /\ IsFallback(i)
        /\ points[i].speedRPM > 0
        /\ points[i].id = 0 /\ points[i].iq = 0
        /\ aux[i].vMag_final > vLim
        /\ points[i].voltageIndex = 10000

\* The angle of the i-th point, in the unit of the searches.
BetaOf(i) == points[i].currentAngle \div 125

\* The voltage magnitude of the point of magnitude imax at angle b, at the
\* speed of the i-th point.
VoltageAt(i, b) ==
    getVoltageMag(params, aux[i].omega, IdAt(params.imax, b), IqAt(params.imax, b))

\* The angle b satisfies the voltage limit at the speed of the i-th point with
\* a margin of 1 percent, beyond the resolution of the search and of the
\* arithmetic.
ClearlyFeasibleAt(i, b) == VoltageAt(i, b) * 100 <= vLim * 99

\* C15: a flux-weakening search returns an angle of [betaStart, 90 deg] that
\* satisfies the voltage limit, no smaller angle of the bracket satisfying it
\* clearly, and it falls back to zero current only when no angle of the
\* bracket clearly satisfies the voltage limit.
C15_SmallestFeasibleAngle ==
    \A i \in 1..Len(points) :
        aux[i].region = "FW" =>
            /\ aux[i].found =>
                  /\ BetaOf(i) >= betaStart /\ BetaOf(i) <= HalfPi
                  /\ VoltageAt(i, BetaOf(i)) <= vLim
                  /\ \A b \in betaStart..(BetaOf(i) - 1) : ~ClearlyFeasibleAt(i, b)
            /\ ~aux[i].found =>
                  \A b \in betaStart..(HalfPi - 1) : ~ClearlyFeasibleAt(i, b)

\* The points of a current-magnitude search, and those it left at the
\* all-zero default.
IsMagnitudePoint(i) == aux[i].region = "MAG"

\* The magnitude of the currents the i-th point reports.
MagnitudeOf(i) == Sqrt(points[i].id * points[i].id + points[i].iq * points[i].iq)

\* The voltage magnitude, at the speed of the i-th point, of the point of
\* magnitude m at the angle the control strategy gives that magnitude.
StrategyVoltageAt(i, m) ==
    LET tBeta == TrialBeta(params, m)
    IN  getVoltageMag(params, aux[i].omega, IdAt(m, tBeta), IqAt(m, tBeta))

\* The magnitudes compared with the one a search returned: 32 levels of imax.
MagnitudeGrid == { TDiv(params.imax * k, 32) : k \in 1..32 }

GridTorque(k) == getTorque(params, params.imax, k * (AngPerDeg \div 2))

\* C17, on the base point: under MTPA betaStart is an angle of the grid
\* 0, 0.5, ..., 90 degrees, no grid angle gives more torque than maxTorque,
\* betaStart gives exactly maxTorque and no smaller grid angle does; with
\* imax = 0 it is angle 0 with maxTorque 0; the base currents are those of
\* betaStart.
C17_MtpaArgmax ==
    params.controlStrategy = "MTPA" =>
        /\ \E k \in 0..180 :
              /\ betaStart = k * (AngPerDeg \div 2)
              /\ GridTorque(k) = maxTorque
              /\ \A j \in 0..(k - 1) : GridTorque(j) < maxTorque
        /\ \A k \in 0..180 : GridTorque(k) <= maxTorque
        /\ params.imax = 0 => betaStart = 0 /\ maxTorque = 0
        /\ id_base = IdAt(params.imax, betaStart)
        /\ iq_base = IqAt(params.imax, betaStart)
        /\ \A i \in 1..Len(points) :
              aux[i].region = "R1" => BetaOf(i) = betaStart

\* C17: the above at every moment of a run, and from the entry to the return
\* the scan's result is not changed, whatever the speed.
C17_MtpaScanOnce ==
    /\ []C17_MtpaArgmax
    /\ [][pc # "done" => betaStart' = betaStart /\ maxTorque' = maxTorque
                          /\ id_base' = id_base /\ iq_base' = iq_base]_vars

C17_Witness ==
    /\ pc = "done"
    /\ params.controlStrategy = "MTPA"
    /\ betaStart > 0 /\ betaStart < HalfPi
    /\ Len(points) > 2
    /\ GridTorque(0) < maxTorque
    /\ GridTorque(180) < maxTorque
    /\ \E i \in 1..Len(points) : aux[i].region = "R1" /\ points[i].speedRPM > 0

\* C18: a point at a speed where the base point's voltage is within vLim
\* carries id_base, iq_base, the base angle in degrees and the torque
\* max(0, maxTorque), no search having run for it, with flux weakening on or
\* off.
C18_Region1KeepsBase ==
    \A i \in 1..Len(points) :
        BaseVoltage(points[i].speedRPM) <= vLim =>
            /\ points[i].id = id_base
            /\ points[i].iq = iq_base
            /\ points[i].currentAngle = TDiv(betaStart * 1000, AngPerDeg)
            /\ points[i].torque = Max(0, maxTorque)
            /\ aux[i].region = "R1"

C18_Witness ==
    /\ pc = "done"
    /\ params.enableFluxWeakening
    /\ betaStart > 0
    /\ \E i \in 1..Len(points) :
          /\ points[i].speedRPM > 0
          /\ BaseVoltage(points[i].speedRPM) <= vLim
          /\ points[i].id = id_base /\ points[i].id < 0
    /\ \E j \in 1..Len(points) :
          BaseVoltage(points[j].speedRPM) > vLim /\ points[j].id # id_base

\* C20 as stated: no point has a torque above maxTorque.
C20_MaxTorqueBounds ==
    \A i \in 1..Len(points) : points[i].torque <= maxTorque

\* The no-load speed in RPM, (vLim / psif) * 60 / (2 pi p), to the 4 RPM the
\* integer steps resolve.
NoLoadRPM(prm) ==
    TDiv(TDiv(VLim(prm) * 10000, prm.psif) * 6000, TDiv(2 * PI4 * prm.p, 100))

\* The fields calculateTheoreticalMaxSpeed reads without flux weakening, the
\* others blanked.
NoLoadFields(prm) ==
    [prm EXCEPT !.ld = 1, !.lq = 1, !.rs = 0, !.imax = 0, !.maxSpeed = 0,
                !.controlStrategy = "Id=0", !.motorType = "SPMSM"]

\* C11, on the value returned: with flux weakening off it is a multiple of
\* 100 with R <= value < R + 100 for R = (vLim / psif) * 60 / (2 pi p), the
\* value the function returns whatever ld, lq, rs, imax and the strategy are.
C11_NoLoadValue ==
    (suggestion # NoSuggestion /\ ~params.enableFluxWeakening) =>
        /\ suggestion.speed % 100 = 0
        /\ suggestion.speed >= NoLoadRPM(params) - 4
        /\ suggestion.speed < NoLoadRPM(params) + 100 + 4
        /\ suggestion.speed = calculateTheoreticalMaxSpeed(NoLoadFields(params))
        /\ params.maxSpeed = suggestion.speed

ResidualOf(prm) ==
    IF prm.psif * 1000 >= prm.ld * prm.imax
    THEN prm.psif * 1000 - prm.ld * prm.imax
    ELSE prm.ld * prm.imax - prm.psif * 1000

\* C12: with flux weakening on the value returned is 20000 when
\* imax >= psif / ld or when the residual flux is below 1e-9 Wb, and
\* otherwise the speed of the residual flux rounded up to a multiple of 100;
\* no flux below 1e-9 Wb is divided by and the value is an integer of the
\* model.
C12_SentinelOrFinite ==
    (suggestion # NoSuggestion /\ params.enableFluxWeakening) =>
        /\ params.imax * params.ld >= params.psif * 1000 =>
              suggestion.speed = 20000 /\ suggestion.divisor = -1
        /\ ResidualOf(params) < 10 =>
              suggestion.speed = 20000 /\ suggestion.divisor = -1
        /\ (params.imax * params.ld < params.psif * 1000 /\ ResidualOf(params) >= 10) =>
              /\ suggestion.divisor = ResidualOf(params)
              /\ suggestion.speed = RoundedUpRPM(VLim(params), ResidualOf(params), params.p)
              /\ suggestion.speed % 100 = 0
              /\ suggestion.speed >= NoLoadRPM(params)
        /\ suggestion.divisor # -1 => suggestion.divisor >= 10
        /\ suggestion.speed >= 0
        /\ params.maxSpeed = suggestion.speed

C12_Witness ==
    /\ suggestion # NoSuggestion
    /\ params.enableFluxWeakening
    /\ params.imax * params.ld < params.psif * 1000
    /\ ResidualOf(params) < 10
    /\ params.maxSpeed = 20000

\* C19: the record the form hands to App has ld = lq whenever its motorType
\* is SPMSM.
C19_SpmsmEqualInductances ==
    params.motorType = "SPMSM" => params.ld = params.lq

C19_Witness ==
    /\ pc = "form"
    /\ params.motorType = "SPMSM"
    /\ params.ld = 1226 /\ params.lq = 1226
    /\ params.enableFluxWeakening
    /\ params.controlStrategy = "Id=0"
    /\ suggestion # NoSuggestion

\* C21 as stated: every point has its current angle in [0, 90] degrees,
\* id <= 0 and iq >= 0, the records with ld > lq included.
C21_AngleRange ==
    \A i \in 1..Len(points) :
        /\ points[i].currentAngle >= 0
        /\ points[i].currentAngle <= 90000
        /\ points[i].id <= 0
        /\ points[i].iq >= 0

\* The record with enableFluxWeakening set to fw, the other fields kept.
WithFluxWeakening(prm, fw) == [prm EXCEPT !.enableFluxWeakening = fw]

\* C22 as stated: whenever the function has returned for a record, the value
\* it returns for the record with flux weakening on, 20000 included, is at
\* least the value it returns for the record with flux weakening off.
C22_FluxWeakeningNeverLowers ==
    suggestion # NoSuggestion =>
        \A on \in {calculateTheoreticalMaxSpeed(WithFluxWeakening(params, TRUE))} :
        \A off \in {calculateTheoreticalMaxSpeed(WithFluxWeakening(params, FALSE))} :
            /\ suggestion.speed \in {on, off}
            /\ (on # Unrepresentable /\ off # Unrepresentable) => on >= off
====
